---- MODULE Spec2Model ----
(***************************************************************************)
(* Frame pacing and GPU resource coordination of the Wayland back end:     *)
(* the GPU completion fence manager (window/src/os/wayland/gpufence.rs),   *)
(* the triple-buffer rotation manager (.../triplebuffer.rs), the           *)
(* presentation timing manager (.../presentation.rs) and the vertex buffer *)
(* pool (wezterm-gui/src/bufferpool.rs); and the generation-stamped caches *)
(* of callback results (wezterm-gui/src/callback_cache.rs,                 *)
(* tab_title_cache.rs) and of Lua tables (lua_ser_cache.rs).               *)
(*                                                                         *)
(* Each manager has a specification of its own.  The fence and buffer      *)
(* managers count time in whole seconds, the presentation manager in       *)
(* nanoseconds (the resolution of Duration).  Every API call is made some  *)
(* delay after the previous one returned; Instant::now() is monotonic.     *)
(* Option<T> is modelled as a sequence of length 0 (None) or 1 (Some).     *)
(***************************************************************************)
EXTENDS Integers, Sequences, FiniteSets, TLC

VARIABLES
    now,                    \* the monotonic clock read by Instant::now()
    calls,                  \* number of API calls made so far
    last,                   \* the last API call: name, argument, result, external effects
    \* ---- GpuFenceManager (gpufence.rs:130-144) and the EGL sync objects
    fm_alive,               \* the manager has not been dropped yet
    pending_fence,          \* Option<GpuFence>
    sync_destroyed,         \* per sync object created by CreateSync: DestroySync calls on it
    total_fences_created,
    total_waits,
    total_timeouts,
    total_wait_time,
    max_wait_time,
    last_timeout_log,
    last_stats_log,
    \* ---- TripleBufferManager (triplebuffer.rs:83-97)
    buffers,                \* [BufferMetadata; 3]
    current_buffer,
    total_frames,
    buffer_starvation_count,
    last_starvation_warning,
    \* ---- observers of the triple-buffer manager's callers
    acquire_calls,          \* acquire_buffer calls made so far
    acquire_some,           \* those that returned Some(id)
    lifecycle,              \* progress of acquire -> queue -> mark_displayed -> release
                            \* on one id: [stage |-> 0..4, id |-> the id acquired]
    frame_open,             \* a buffer id was acquired and queue_current_buffer
                            \* has not been called since
    \* ---- PresentationManager (presentation.rs:76-90)
    last_feedback,          \* Option<PresentationFeedback>
    estimated_refresh_interval,
    total_feedbacks,
    vsync_hits,
    zero_copy_frames,
    pm_last_stats_log,      \* PresentationManager::last_stats_log
    \* ---- observers of the presentation manager's callers
    default_refresh_hz,     \* the argument PresentationManager::new was given
    call_time,              \* the clock when the last call was entered
    \* ---- VertexBufferPool (bufferpool.rs:12-19)
    available,              \* Vec<(usize, VertexBuffer)>: the capacity of each entry
    allocations,
    reuses,
    \* ---- the callback caches (callback_cache.rs:14-20, tab_title_cache.rs:13-16)
    caches,                 \* per cache: [entries, generation]
    \* ---- observers of the callback caches' callers
    inserted,               \* per cache and key: the value of the latest insert
                            \* since the cache was last invalidated or cleared, 0 if none
    invalidations,          \* per cache: the invalidate calls that have returned
    getter,                 \* per thread: its position in a cached getter
    \* ---- the Lua table caches (lua_ser_cache.rs:16-24)
    lua_caches              \* per cache: [entries, generation]

fenceVars == <<fm_alive, pending_fence, sync_destroyed, total_fences_created,
               total_waits, total_timeouts, total_wait_time, max_wait_time,
               last_timeout_log, last_stats_log>>
fenceStats == <<total_fences_created, total_waits, total_timeouts,
                total_wait_time, max_wait_time>>
tbVars == <<buffers, current_buffer, total_frames, buffer_starvation_count,
            last_starvation_warning, acquire_calls, acquire_some, lifecycle,
            frame_open>>
pmStats == <<total_feedbacks, vsync_hits, zero_copy_frames, pm_last_stats_log>>
pmVars == <<last_feedback, estimated_refresh_interval, pmStats,
            default_refresh_hz, call_time>>
poolVars == <<available, allocations, reuses>>
cacheVars == <<caches, inserted, invalidations, getter, lua_caches>>
vars == <<now, calls, last, fenceVars, tbVars, pmVars, poolVars, cacheVars>>

\* ------------------------------------------------------------------ bounds
\* API calls per behaviour of the fence manager
MaxFenceOps == 5
\* API calls per behaviour of the triple-buffer manager
MaxBufferOps == 5

\* Seconds that may pass between two calls of the fence manager: none, exactly
\* the timeout-warning interval, more than the statistics interval.
FenceDelays == {0, 5, 61}
\* Timeouts the caller passes to wait_for_fence (0 polls).
Timeouts == {0, 1}
\* Seconds that may pass between two calls of the triple-buffer manager.
BufferDelays == {0, 1}
\* Seconds the clock may advance between two Instant::now() reads of one call.
ClockAdvance == {0, 1}

\* API calls per behaviour of the triple-buffer manager under a render loop
\* that queues every buffer it acquires before it acquires again
MaxSteadyOps == 6
\* API calls per behaviour of the presentation manager
MaxPresentOps == 3
\* The width of the u32 count of elapsed refresh intervals, narrowed from
\* 2^32 so that a quotient of two model durations can reach it.
U32Modulus == 4
\* default_refresh_hz values PresentationManager::new is given (60 is
\* Default::default).
RefreshRates == {60, 144}
\* Nanoseconds that may pass between two calls of the presentation manager:
\* none, or one frame of a 60 Hz display.
PresentDelays == {0, 16666667}
\* present_time of a delivered feedback relative to the clock at delivery:
\* one frame earlier, now, one frame ahead.
PresentOffsets == {-16666667, 0, 16666667}
\* refresh_interval values of a delivered feedback (nanoseconds).
RefreshIntervals == {0, 5000000, 16666667}
\* Flag sets of a delivered feedback.
FeedbackFlags == {{}, {"VSYNC", "ZERO_COPY"}}
\* render_time_budget values (nanoseconds).
Budgets == {0, 8000000}
\* Nanoseconds the clock may advance between two Instant::now() reads of one
\* presentation call.
ReadAdvance == {0, 1000000}

\* API calls per behaviour of the render loop, and the feedbacks delivered to
\* it among the first MaxPresentOps of them.
MaxLoopOps == 6
MaxLoopFeedbacks == 1

\* API calls per behaviour of the vertex buffer pool
MaxPoolOps == 10
\* API calls per behaviour of the callback caches and of the Lua table caches
MaxCacheOps == 4
MaxLuaOps == 4
\* Calls of the cached getters and of the invalidate functions per behaviour
MaxGetterOps == 3
\* The number of values of the u64 hash of a cache key, narrowed from 2^64 so
\* that two of the model's keys have the same hash.
HashModulus == 2
\* The number of values of usize, narrowed from 2^64 so that the requests
\* whose next power of two does not fit are within the model's integers.
UsizeModulus == 512
\* min_quads values passed to acquire: the floor of 32 and below, the
\* documented requests 33, 100 and 200, and one above the largest power of two.
MinQuads == {0, 32, 33, 100, 200, 300}
\* Capacities of the buffers passed to release.
ReleasedCapacities == {32, 128, 256}

\* ------------------------------------------------------------ common parts
Call(op, arg, ret, val, ext) ==
    [op |-> op, arg |-> arg, ret |-> ret, val |-> val, ext |-> ext]

\* The occurrences of effect e in a call's external effects.
Count(ext, e) == Cardinality({i \in 1..Len(ext) : ext[i] = e})

Max_latest(a, b) == b
Max(a, b) == IF a >= b THEN a ELSE b

\* ================================================================ gpufence
TimeoutLogInterval == 5
StatsLogInterval == 60

\* The sync objects created and not destroyed.
LiveSyncs == {s \in 1..Len(sync_destroyed) : sync_destroyed[s] = 0}

\* GpuFence::create: a fence around the handle CreateSync returned, or the
\* error when it returned NO_SYNC.  handle = 0 stands for NO_SYNC.  A fence's
\* created_at is read only for the text of the timeout warning and is left out.
GpuFence_create(handle) ==
    IF handle = 0 THEN <<>> ELSE <<[sync |-> handle]>>

\* impl Drop for GpuFence, applied to an Option<GpuFence> going out of scope:
\* DestroySync on the fence's handle.
Drop_leak(destroyed, fence) == destroyed
Drop_twice(destroyed, fence) ==
    IF fence = <<>> THEN destroyed
    ELSE [destroyed EXCEPT ![fence[1].sync] = @ + 2]
GpuFence_drop(destroyed, fence) ==
    IF fence = <<>> THEN destroyed
    ELSE [destroyed EXCEPT ![fence[1].sync] = @ + 1]

DropEffects(fence) == IF fence = <<>> THEN <<>> ELSE <<"DestroySync">>

\* GpuFence::wait: the match on ClientWaitSync's status.
Wait_errorIsSignaled(status) == status # "TIMEOUT_EXPIRED"
GpuFence_wait(status) ==
    CASE status = "CONDITION_SATISFIED" -> TRUE
      [] status = "TIMEOUT_EXPIRED" -> FALSE
      [] OTHER -> FALSE

WaitEffects(status) ==
    IF status \in {"CONDITION_SATISFIED", "TIMEOUT_EXPIRED"}
    THEN <<"ClientWaitSync">>
    ELSE <<"ClientWaitSync", "GetError", "warn:unexpected status">>

\* wait_for_fence, line 206: the timeout warning is due when more than the
\* interval has elapsed since last_timeout_log.
TimeoutWarnDue_atInterval(elapsed) == elapsed >= TimeoutLogInterval
TimeoutWarnDue(elapsed) == elapsed > TimeoutLogInterval

\* create_fence, line 171: self.pending_fence = Some(fence) on Ok, untouched on Err.
Store_evenOnError(pending, created) == created
StorePending(pending, created) ==
    IF created = <<>> THEN pending ELSE created

\* wait_for_fence, line 189: self.pending_fence.take()
Take_peek(pending) == pending
TakePending(pending) == <<>>

FenceInit ==
    /\ fm_alive = TRUE
    /\ pending_fence = <<>>
    /\ sync_destroyed = <<>>
    /\ total_fences_created = 0
    /\ total_waits = 0
    /\ total_timeouts = 0
    /\ total_wait_time = 0
    /\ max_wait_time = 0
    /\ last_timeout_log = 0
    /\ last_stats_log = 0

\* GpuFenceManager::create_fence.  ok: whether CreateSync returned a handle.
create_fence ==
    /\ fm_alive /\ calls < MaxFenceOps
    /\ \E d \in FenceDelays, ok \in BOOLEAN :
        LET handle == IF ok THEN Len(sync_destroyed) + 1 ELSE 0
            created == GpuFence_create(handle)
            objects == IF ok THEN Append(sync_destroyed, 0) ELSE sync_destroyed
            stored == StorePending(pending_fence, created)
            \* the assignment drops the value it overwrites
            dropped == IF stored = pending_fence THEN <<>> ELSE pending_fence
        IN  /\ now' = now + d
            /\ pending_fence' = stored
            /\ sync_destroyed' = GpuFence_drop(objects, dropped)
            /\ total_fences_created' =
                 IF created # <<>> THEN total_fences_created + 1
                 ELSE total_fences_created
            /\ last' = Call("create_fence", 0,
                            IF created # <<>> THEN "Ok" ELSE "Err", 0,
                            IF ok
                            THEN <<"CreateSync:sync">> \o DropEffects(dropped)
                            ELSE <<"CreateSync:NO_SYNC", "GetError",
                                   "warn:create failed">>)
    /\ calls' = calls + 1
    /\ UNCHANGED <<fm_alive, total_waits, total_timeouts, total_wait_time,
                   max_wait_time, last_timeout_log, last_stats_log, tbVars, pmVars, poolVars, cacheVars>>

\* wait_for_fence, line 189: the `?` on an empty pending_fence returns None
\* before anything else is done.
WaitNone_counted(d, timeout) ==
    /\ now' = now + d
    /\ last' = Call("wait_for_fence", timeout, "None", 0, <<>>)
    /\ total_waits' = total_waits + 1
    /\ UNCHANGED <<pending_fence, sync_destroyed, total_timeouts, total_wait_time,
                   max_wait_time, last_timeout_log, last_stats_log>>
WaitNone(d, timeout) ==
    /\ now' = now + d
    /\ last' = Call("wait_for_fence", timeout, "None", 0, <<>>)
    /\ UNCHANGED <<pending_fence, sync_destroyed, total_waits, total_timeouts,
                   total_wait_time, max_wait_time, last_timeout_log, last_stats_log>>

\* GpuFenceManager::wait_for_fence(timeout).  status: what ClientWaitSync
\* reports; e: the time the wait took, which the call records in last.val.
wait_for_fence ==
    /\ fm_alive /\ calls < MaxFenceOps
    /\ \E d \in FenceDelays, timeout \in Timeouts,
          status \in {"CONDITION_SATISFIED", "TIMEOUT_EXPIRED", "BAD_PARAMETER"},
          e \in 0..1 :
        /\ e <= timeout
        /\ status = "TIMEOUT_EXPIRED" => e = timeout
        /\ IF pending_fence = <<>>
           THEN /\ e = 0 /\ status = "TIMEOUT_EXPIRED"
                /\ WaitNone(d, timeout)
           ELSE LET fence == pending_fence
                    start == now + d
                    signaled == GpuFence_wait(status)
                    done == start + e
                    wait_time == done - start
                    warn == ~signaled /\ TimeoutWarnDue(done - last_timeout_log)
                    stats == done - last_stats_log > StatsLogInterval
                IN  /\ now' = done
                    /\ pending_fence' = TakePending(pending_fence)
                    /\ total_waits' = total_waits + 1
                    /\ total_wait_time' = total_wait_time + wait_time
                    /\ max_wait_time' = Max(max_wait_time, wait_time)
                    /\ total_timeouts' =
                         IF signaled THEN total_timeouts ELSE total_timeouts + 1
                    /\ last_timeout_log' = IF warn THEN done ELSE last_timeout_log
                    /\ last_stats_log' = IF stats THEN done ELSE last_stats_log
                    \* the local `fence` is dropped when the function returns
                    /\ sync_destroyed' = GpuFence_drop(sync_destroyed, fence)
                    /\ last' = Call("wait_for_fence", timeout,
                                    IF signaled THEN "Some(true)" ELSE "Some(false)",
                                    wait_time,
                                    WaitEffects(status)
                                    \o (IF warn THEN <<"warn:fence timeout">> ELSE <<>>)
                                    \o (IF stats THEN <<"info:stats">> ELSE <<>>)
                                    \o DropEffects(fence))
    /\ calls' = calls + 1
    /\ UNCHANGED <<fm_alive, total_fences_created, tbVars, pmVars, poolVars, cacheVars>>

\* GpuFenceManager::is_fence_signaled: a poll of the pending fence, which stays.
is_fence_signaled ==
    /\ fm_alive /\ calls < MaxFenceOps
    /\ \E d \in FenceDelays,
          status \in {"CONDITION_SATISFIED", "TIMEOUT_EXPIRED", "BAD_PARAMETER"} :
        /\ pending_fence = <<>> => status = "TIMEOUT_EXPIRED"
        /\ now' = now + d
        /\ last' = IF pending_fence = <<>>
                   THEN Call("is_fence_signaled", 0, "None", 0, <<>>)
                   ELSE Call("is_fence_signaled", 0,
                             IF GpuFence_wait(status) THEN "Some(true)" ELSE "Some(false)",
                             0, WaitEffects(status))
    /\ calls' = calls + 1
    /\ UNCHANGED <<fenceVars, tbVars, pmVars, poolVars, cacheVars>>

\* The manager goes out of scope: its pending_fence field is dropped.
drop_manager ==
    /\ fm_alive
    /\ fm_alive' = FALSE
    /\ pending_fence' = <<>>
    /\ sync_destroyed' = GpuFence_drop(sync_destroyed, pending_fence)
    /\ last' = Call("drop", 0, "Unit", 0, DropEffects(pending_fence))
    /\ calls' = calls + 1
    /\ UNCHANGED <<now, fenceStats, last_timeout_log, last_stats_log, tbVars, pmVars, poolVars, cacheVars>>

\* ============================================================ triplebuffer
BufferIds == 0..2
StarvationWarnInterval == 1

\* BufferMetadata::new(id); the id is the slot's index.
BufferMetadata_new(t) ==
    [state |-> "Available", state_changed |-> t, use_count |-> 0]

\* BufferMetadata::transition_to, at clock reading t.
Transition_keepsState(b, new_state, t) ==
    [b EXCEPT !.state_changed = t]
transition_to(b, new_state, t) ==
    [state |-> new_state,
     state_changed |-> t,
     use_count |-> IF new_state = "Rendering" THEN b.use_count + 1 ELSE b.use_count]

\* BufferMetadata::time_in_state, with the clock reading t.
time_in_state(b, t) == t - b.state_changed

\* acquire_buffer's first loop: the first slot in Available, as an Option.
First_lastAvailable(bufs) ==
    LET A == {i \in BufferIds : bufs[i].state = "Available"}
    IN  IF A = {} THEN <<>> ELSE <<CHOOSE i \in A : \A j \in A : j <= i>>
FirstAvailable(bufs) ==
    LET A == {i \in BufferIds : bufs[i].state = "Available"}
    IN  IF A = {} THEN <<>> ELSE <<CHOOSE i \in A : \A j \in A : i <= j>>

\* acquire_buffer's fallback, line 150: the slots the filter lets through.
Reusable_never(b) == FALSE
Reusable(b) == b.state = "Queued"

\* acquire_buffer's fallback: filter on Queued, then max_by_key(time_in_state).
\* Each key is computed with its own clock reading reads[i], in slot order, and
\* of equal keys max_by_key returns the last.
Oldest_ofBusy(bufs, reads) ==
    LET Q == {i \in BufferIds : bufs[i].state \in {"Queued", "Displayed"}}
        key(i) == time_in_state(bufs[i], reads[i])
    IN  IF Q = {} THEN <<>>
        ELSE <<CHOOSE i \in Q : \A j \in Q :
                  key(j) < key(i) \/ (key(j) = key(i) /\ j <= i)>>
OldestQueued(bufs, reads) ==
    LET Q == {i \in BufferIds : Reusable(bufs[i])}
        key(i) == time_in_state(bufs[i], reads[i])
    IN  IF Q = {} THEN <<>>
        ELSE <<CHOOSE i \in Q : \A j \in Q :
                  key(j) < key(i) \/ (key(j) = key(i) /\ j <= i)>>

\* acquire_buffer, line 156: the fallback makes the reused slot the current one.
CurrentAfterReuse_stale(current, idx) == current
CurrentAfterReuse(current, idx) == idx

\* queue_current_buffer, line 178: the slot is queued whatever state it is in.
Queue_timestampOnly(b, t) == [b EXCEPT !.state_changed = t]
Queue_ifRendering(b, t) ==
    IF b.state = "Rendering" THEN transition_to(b, "Queued", t) ELSE b
QueueSlot(b, t) == transition_to(b, "Queued", t)

\* acquire_buffer, line 135: every call that found no Available slot is counted,
\* before and whatever the rate-limited warning does.
CountStarvation_whenWarned(count, warn) == IF warn THEN count + 1 ELSE count
CountStarvation(count, warn) == count + 1

\* acquire_buffer, lines 147-158: the fallback returns the reused slot without
\* touching total_frames, which only the first loop (line 126) increments.
FramesAfterReuse_counted(frames) == frames + 1
FramesAfterReuse(frames) == frames

\* mark_displayed / release_buffer, `if buffer_id >= 3 { return }`: the slot an
\* external id names, as an Option.
ValidSlot_wrapped(buffer_id) == <<buffer_id % 3>>
ValidSlot(buffer_id) == IF buffer_id >= 3 THEN <<>> ELSE <<buffer_id>>

TBInit ==
    /\ buffers = [i \in BufferIds |-> BufferMetadata_new(0)]
    /\ current_buffer = 0
    /\ total_frames = 0
    /\ buffer_starvation_count = 0
    /\ last_starvation_warning = 0
    /\ acquire_calls = 0
    /\ acquire_some = 0
    /\ lifecycle = [stage |-> 0, id |-> 0]
    /\ frame_open = FALSE

\* TripleBufferManager::acquire_buffer.  a1, a2: the clock's advance between
\* the time_in_state readings of slots 0, 1 and 2 in the fallback.
AcquireBuffer ==
    /\ \E d \in BufferDelays, a1 \in ClockAdvance, a2 \in ClockAdvance :
        LET t == now + d
            avail == FirstAvailable(buffers)
            reads == [i \in BufferIds |->
                        IF i = 0 THEN t ELSE IF i = 1 THEN t + a1 ELSE t + a1 + a2]
            oldest_queued == OldestQueued(buffers, reads)
            warn == t - last_starvation_warning > StarvationWarnInterval
        IN  IF avail # <<>>
            THEN /\ a1 = 0 /\ a2 = 0
                 /\ now' = t
                 /\ buffers' = [buffers EXCEPT
                                  ![avail[1]] = transition_to(@, "Rendering", t)]
                 /\ current_buffer' = avail[1]
                 /\ total_frames' = total_frames + 1
                 /\ acquire_some' = acquire_some + 1
                 /\ lifecycle' = [stage |-> 1, id |-> avail[1]]
                 /\ frame_open' = TRUE
                 /\ last' = Call("acquire_buffer", 0, "Some", avail[1], <<>>)
                 /\ UNCHANGED <<buffer_starvation_count, last_starvation_warning>>
            ELSE /\ buffer_starvation_count' =
                      CountStarvation(buffer_starvation_count, warn)
                 /\ last_starvation_warning' =
                      IF warn THEN t ELSE last_starvation_warning
                 /\ now' = reads[2]
                 /\ total_frames' = IF oldest_queued # <<>>
                                     THEN FramesAfterReuse(total_frames)
                                     ELSE total_frames
                 /\ IF oldest_queued # <<>>
                    THEN /\ buffers' = [buffers EXCEPT ![oldest_queued[1]] =
                                          transition_to(@, "Rendering", reads[2])]
                         /\ current_buffer' =
                              CurrentAfterReuse(current_buffer, oldest_queued[1])
                         /\ acquire_some' = acquire_some + 1
                         /\ lifecycle' = [stage |-> 1, id |-> oldest_queued[1]]
                         /\ frame_open' = TRUE
                         /\ last' = Call("acquire_buffer", 0, "Some", oldest_queued[1],
                                         (IF warn THEN <<"warn:starvation">> ELSE <<>>)
                                         \o <<"warn:forced reuse">>)
                    ELSE /\ UNCHANGED <<buffers, current_buffer, acquire_some,
                                        frame_open>>
                         /\ lifecycle' = [stage |-> 0, id |-> 0]
                         /\ last' = Call("acquire_buffer", 0, "None", 0,
                                         IF warn THEN <<"warn:starvation">> ELSE <<>>)
    /\ acquire_calls' = acquire_calls + 1
    /\ calls' = calls + 1
    /\ UNCHANGED <<fenceVars, pmVars, poolVars, cacheVars>>

acquire_buffer ==
    /\ calls < MaxBufferOps
    /\ AcquireBuffer

\* TripleBufferManager::queue_current_buffer
QueueCurrentBuffer ==
    /\ \E d \in BufferDelays :
        LET t == now + d
            buffer == buffers[current_buffer]
        IN  /\ now' = t
            /\ buffers' = [buffers EXCEPT ![current_buffer] = QueueSlot(@, t)]
            /\ last' = Call("queue_current_buffer", 0, "Unit", 0,
                            IF buffer.state # "Rendering"
                            THEN <<"warn:not rendering">> ELSE <<>>)
    /\ lifecycle' = IF lifecycle.stage = 1
                    THEN [lifecycle EXCEPT !.stage = 2]
                    ELSE [stage |-> 0, id |-> 0]
    /\ frame_open' = FALSE
    /\ calls' = calls + 1
    /\ UNCHANGED <<current_buffer, total_frames, buffer_starvation_count,
                   last_starvation_warning, acquire_calls, acquire_some, fenceVars,
                   pmVars, poolVars, cacheVars>>

queue_current_buffer ==
    /\ calls < MaxBufferOps
    /\ QueueCurrentBuffer

\* TripleBufferManager::mark_displayed(buffer_id); 3 stands for every id >= 3.
MarkDisplayed(buffer_id) ==
    /\ \E d \in BufferDelays :
        LET t == now + d
        IN  /\ now' = t
            /\ IF ValidSlot(buffer_id) = <<>>
               THEN /\ UNCHANGED buffers
                    /\ last' = Call("mark_displayed", buffer_id, "Unit", 0,
                                    <<"error:invalid buffer_id">>)
               ELSE /\ buffers' = [buffers EXCEPT ![ValidSlot(buffer_id)[1]] =
                                     transition_to(@, "Displayed", t)]
                    /\ last' = Call("mark_displayed", buffer_id, "Unit", 0, <<>>)
            /\ lifecycle' = IF lifecycle.stage = 2 /\ lifecycle.id = buffer_id
                            THEN [lifecycle EXCEPT !.stage = 3]
                            ELSE [stage |-> 0, id |-> 0]
    /\ calls' = calls + 1
    /\ UNCHANGED <<current_buffer, total_frames, buffer_starvation_count,
                   last_starvation_warning, acquire_calls, acquire_some,
                   frame_open, fenceVars, pmVars, poolVars, cacheVars>>

mark_displayed ==
    /\ calls < MaxBufferOps
    /\ \E buffer_id \in 0..3 : MarkDisplayed(buffer_id)

\* TripleBufferManager::release_buffer(buffer_id); 3 stands for every id >= 3.
ReleaseBuffer(buffer_id) ==
    /\ \E d \in BufferDelays :
        LET t == now + d
        IN  /\ now' = t
            /\ IF ValidSlot(buffer_id) = <<>>
               THEN /\ UNCHANGED buffers
                    /\ last' = Call("release_buffer", buffer_id, "Unit", 0,
                                    <<"error:invalid buffer_id">>)
               ELSE /\ buffers' = [buffers EXCEPT ![ValidSlot(buffer_id)[1]] =
                                     transition_to(@, "Available", t)]
                    /\ last' = Call("release_buffer", buffer_id, "Unit", 0, <<>>)
            /\ lifecycle' = IF lifecycle.stage = 3 /\ lifecycle.id = buffer_id
                            THEN [lifecycle EXCEPT !.stage = 4]
                            ELSE [stage |-> 0, id |-> 0]
    /\ calls' = calls + 1
    /\ UNCHANGED <<current_buffer, total_frames, buffer_starvation_count,
                   last_starvation_warning, acquire_calls, acquire_some,
                   frame_open, fenceVars, pmVars, poolVars, cacheVars>>

release_buffer ==
    /\ calls < MaxBufferOps
    /\ \E buffer_id \in 0..3 : ReleaseBuffer(buffer_id)

\* ============================================================ presentation
\* Seconds between two statistics lines of record_feedback.
PresentStatsLogInterval == 60

\* Instant::duration_since: saturates to zero when `earlier` is the later one.
duration_since_signed(later, earlier) == later - earlier
duration_since(later, earlier) == IF later >= earlier THEN later - earlier ELSE 0

\* Duration::mul_f64 by tenths/10: Duration::from_secs_f64 of the product, which
\* truncates to whole nanoseconds or rounds to the nearest one, depending on
\* the toolchain.  The set of results a build can produce.
mul_f64(x, tenths) ==
    LET q == (x * tenths) \div 10
        r == (x * tenths) % 10
    IN  {q} \cup (IF r >= 5 THEN {q + 1} ELSE {})

\* record_feedback, lines 122-123: the new estimates the moving average may
\* produce from the old estimate and the measured interval.
Ewma_swapped(old, interval) ==
    {a + b : a \in mul_f64(old, 1), b \in mul_f64(interval, 9)}
Ewma(old, interval) ==
    {a + b : a \in mul_f64(old, 9), b \in mul_f64(interval, 1)}

\* PresentationManager::new, line 94: 1_000_000_000 / default_refresh_hz.
DefaultInterval_millis(hz) == (1000 \div hz) * 1000000
DefaultInterval(hz) == 1000000000 \div hz

\* `as u32` of the u128 quotient keeps the low bits.
as_u32(n) == n % U32Modulus

\* A call that may panic yields <<>> for the panic and <<v>> for a return of v.
\* PresentationFeedback::predict_next_vsync read at clock t: the division
\* panics on a zero refresh_interval; intervals_passed + 1 overflows at the
\* largest u32 (a panic with overflow checks, a wrap to 0 without).
Feedback_predict_next_vsync(fb, t) ==
    IF fb.refresh_interval = 0
    THEN {<<>>}
    ELSE LET elapsed == duration_since(t, fb.present_time)
             intervals_passed == as_u32(elapsed \div fb.refresh_interval)
         IN  IF intervals_passed + 1 = U32Modulus
             THEN {<<>>, <<fb.present_time>>}
             ELSE {<<fb.present_time
                       + fb.refresh_interval * (intervals_passed + 1)>>}

\* PresentationFeedback::optimal_render_start: predict_next_vsync reads the
\* clock at t2, the comparison reads it again at t3.
Feedback_optimal_render_start(fb, render_time_budget, t2, t3) ==
    {IF next_vsync = <<>> THEN <<>>
     ELSE IF next_vsync[1] > t3 + render_time_budget
          THEN <<next_vsync[1] - render_time_budget>>
          ELSE next_vsync
       : next_vsync \in Feedback_predict_next_vsync(fb, t2)}

\* elapsed > Duration::from_secs(secs), on nanoseconds.
LongerThanSecs(elapsed, secs) ==
    \/ elapsed \div 1000000000 > secs
    \/ elapsed \div 1000000000 = secs /\ elapsed % 1000000000 > 0

\* PresentationManager::new(hz)
PresentationManager_new(hz) ==
    /\ last_feedback = <<>>
    /\ estimated_refresh_interval = DefaultInterval(hz)
    /\ total_feedbacks = 0
    /\ vsync_hits = 0
    /\ zero_copy_frames = 0
    /\ pm_last_stats_log = 0
    /\ default_refresh_hz = hz
    /\ call_time = 0

\* A panic unwinds through the caller: the manager is not called again.
Panicked == last.ret = "panic"

\* The record of a call that returned r or panicked.
Returned(op, arg, ret, r) ==
    IF r = <<>> THEN Call(op, arg, "panic", 0, <<>>)
    ELSE Call(op, arg, ret, r[1], <<>>)

\* PresentationManager::record_feedback.  The call is recorded with the
\* feedback's refresh_interval as arg and, as val, the spacing delivered:
\* present_time minus the previous feedback's present_time (0 for the first).
record_feedback ==
    /\ calls < MaxPresentOps
    /\ ~Panicked
    /\ \E d \in PresentDelays, off \in PresentOffsets,
          ri \in RefreshIntervals, flags \in FeedbackFlags :
        LET t == now + d
            feedback == [present_time |-> t + off, refresh_interval |-> ri,
                         flags |-> flags]
            log == LongerThanSecs(t - pm_last_stats_log, PresentStatsLogInterval)
        IN  /\ now' = t
            /\ call_time' = t
            /\ total_feedbacks' = total_feedbacks + 1
            /\ vsync_hits' = IF "VSYNC" \in flags THEN vsync_hits + 1
                             ELSE vsync_hits
            /\ zero_copy_frames' = IF "ZERO_COPY" \in flags
                                   THEN zero_copy_frames + 1
                                   ELSE zero_copy_frames
            /\ IF last_feedback # <<>>
               THEN estimated_refresh_interval' \in
                      Ewma(estimated_refresh_interval,
                           duration_since(feedback.present_time,
                                          last_feedback[1].present_time))
               ELSE UNCHANGED estimated_refresh_interval
            /\ last_feedback' = <<feedback>>
            /\ pm_last_stats_log' = IF log THEN t ELSE pm_last_stats_log
            /\ last' = Call("record_feedback", ri, "Unit",
                            IF last_feedback # <<>>
                            THEN feedback.present_time
                                   - last_feedback[1].present_time
                            ELSE 0,
                            IF log THEN <<"info:stats">> ELSE <<>>)
    /\ calls' = calls + 1
    /\ UNCHANGED <<default_refresh_hz, fenceVars, tbVars, poolVars, cacheVars>>

\* PresentationManager::predict_next_vsync
predict_next_vsync ==
    /\ calls < MaxPresentOps
    /\ ~Panicked
    /\ \E d \in PresentDelays :
        LET t == now + d
            outcomes == IF last_feedback # <<>>
                        THEN Feedback_predict_next_vsync(last_feedback[1], t)
                        ELSE {<<t + estimated_refresh_interval>>}
        IN  /\ now' = t
            /\ call_time' = t
            /\ \E r \in outcomes :
                  last' = Returned("predict_next_vsync", 0, "Instant", r)
    /\ calls' = calls + 1
    /\ UNCHANGED <<last_feedback, estimated_refresh_interval, pmStats,
                   default_refresh_hz, fenceVars, tbVars, poolVars, cacheVars>>

\* PresentationManager::optimal_render_start.  With a feedback the clock is
\* read twice (predict_next_vsync, then the comparison), without one once.
optimal_render_start ==
    /\ calls < MaxPresentOps
    /\ ~Panicked
    /\ \E d \in PresentDelays, render_time_budget \in Budgets, a \in ReadAdvance :
        LET t == now + d
            outcomes == IF last_feedback # <<>>
                        THEN Feedback_optimal_render_start(
                                 last_feedback[1], render_time_budget, t, t + a)
                        ELSE {<<t>>}
        IN  /\ last_feedback = <<>> => a = 0
            /\ now' = t + a
            /\ call_time' = t
            /\ \E r \in outcomes :
                  last' = Returned("optimal_render_start", render_time_budget,
                                   "Instant", r)
    /\ calls' = calls + 1
    /\ UNCHANGED <<last_feedback, estimated_refresh_interval, pmStats,
                   default_refresh_hz, fenceVars, tbVars, poolVars, cacheVars>>

\* PresentationManager::should_render_now made d after the previous call:
\* `Instant::now() >= self.optimal_render_start(budget)` reads the clock for its
\* left operand first, at t, and optimal_render_start reads it after that.
ShouldRenderNow(d) ==
    /\ ~Panicked
    /\ \E render_time_budget \in Budgets, a1 \in ReadAdvance, a2 \in ReadAdvance :
        LET t == now + d
            outcomes == IF last_feedback # <<>>
                        THEN Feedback_optimal_render_start(
                                 last_feedback[1], render_time_budget,
                                 t + a1, t + a1 + a2)
                        ELSE {<<t + a1>>}
        IN  /\ last_feedback = <<>> => a2 = 0
            /\ now' = t + a1 + a2
            /\ call_time' = t
            /\ \E r \in outcomes :
                  last' = Returned("should_render_now", render_time_budget,
                                   IF r # <<>> /\ t >= r[1] THEN "true" ELSE "false",
                                   r)
    /\ calls' = calls + 1
    /\ UNCHANGED <<last_feedback, estimated_refresh_interval, pmStats,
                   default_refresh_hz, fenceVars, tbVars, poolVars, cacheVars>>

should_render_now ==
    /\ calls < MaxPresentOps
    /\ \E d \in PresentDelays : ShouldRenderNow(d)

\* ============================================================== bufferpool
MAX_POOLED_BUFFERS == 8
\* The smallest capacity acquire allocates.
MinCapacity == 32

RECURSIVE PowerOfTwoAtLeast(_, _)
PowerOfTwoAtLeast(p, n) == IF p >= n THEN p ELSE PowerOfTwoAtLeast(2 * p, n)

\* usize::next_power_of_two: the smallest power of two >= n; when that does
\* not fit usize, a panic with overflow checks (<<>>) and 0 without.
next_power_of_two(n) ==
    LET p == PowerOfTwoAtLeast(1, n)
    IN  IF p >= UsizeModulus THEN {<<>>, <<0>>} ELSE {<<p>>}

\* acquire, line 56: min_quads.next_power_of_two().max(32)
NewCapacity(min_quads) ==
    {IF p = <<>> THEN <<>> ELSE <<Max(p[1], MinCapacity)>>
       : p \in next_power_of_two(min_quads)}

\* acquire, line 41: iter().position(|(cap, _)| *cap >= min_quads), the first
\* entry in storage order that is large enough, as an Option (1-based here).
Position_headOnly(avail, min_quads) ==
    IF Len(avail) > 0 /\ avail[1] >= min_quads THEN <<1>> ELSE <<>>
Position(avail, min_quads) ==
    LET hits == {i \in 1..Len(avail) : avail[i] >= min_quads}
    IN  IF hits = {} THEN <<>>
        ELSE <<CHOOSE i \in hits : \A j \in hits : i <= j>>

\* Vec::swap_remove: the entry at pos is taken out and the last entry is moved
\* into its place.
swap_remove(avail, pos) ==
    [i \in 1..(Len(avail) - 1) |-> IF i = pos THEN avail[Len(avail)] ELSE avail[i]]

\* release, line 85: partition_point(|(cap, _)| *cap >= capacity), the number
\* of entries before the insertion point.  The binary search is defined when
\* the entries satisfying the predicate all come first; on any other order the
\* result is unspecified, any index of 0..len.
partition_point(avail, capacity) ==
    LET n == Len(avail)
        splits == {k \in 0..n : /\ \A i \in 1..k : avail[i] >= capacity
                                /\ \A i \in (k + 1)..n : avail[i] < capacity}
    IN  IF splits # {} THEN splits ELSE 0..n

\* Vec::insert(pos, e), pos counted from 0.
insert(avail, pos, e) ==
    SubSeq(avail, 1, pos) \o <<e>> \o SubSeq(avail, pos + 1, Len(avail))

\* release, line 83: the pool takes the buffer while it holds fewer than 8.
HasRoom_inclusive(avail) == Len(avail) <= MAX_POOLED_BUFFERS
HasRoom(avail) == Len(avail) < MAX_POOLED_BUFFERS

\* acquire, lines 59-61: the `?` on allocate_vertex_buffer returns the error
\* before the allocation counter is incremented.
CountAllocation_attempts(count, allocated) == count + 1
CountAllocation(count, allocated) == IF allocated THEN count + 1 ELSE count

\* VertexBufferPool::new
PoolInit ==
    /\ available = <<>>
    /\ allocations = 0
    /\ reuses = 0

\* VertexBufferPool::acquire.  allocated tells whether the render context's
\* allocate_vertex_buffer succeeds if it is called.
acquire ==
    /\ calls < MaxPoolOps
    /\ ~Panicked
    /\ \E min_quads \in MinQuads, allocated \in BOOLEAN :
        LET pos == Position(available, min_quads)
        IN  IF pos # <<>>
            THEN /\ allocated
                 /\ available' = swap_remove(available, pos[1])
                 /\ reuses' = reuses + 1
                 /\ UNCHANGED allocations
                 /\ last' = Call("acquire", min_quads, "Ok", available[pos[1]],
                                 <<"reused">>)
            ELSE \E capacity \in NewCapacity(min_quads) :
                 /\ UNCHANGED <<available, reuses>>
                 /\ IF capacity = <<>>
                    THEN /\ allocated
                         /\ UNCHANGED allocations
                         /\ last' = Call("acquire", min_quads, "panic", 0, <<>>)
                    ELSE /\ allocations' = CountAllocation(allocations, allocated)
                         /\ last' = IF allocated
                                    THEN Call("acquire", min_quads, "Ok", capacity[1],
                                              <<"allocated">>)
                                    ELSE Call("acquire", min_quads, "Err", capacity[1],
                                              <<>>)
    /\ calls' = calls + 1
    /\ UNCHANGED <<now, fenceVars, tbVars, pmVars, cacheVars>>

\* VertexBufferPool::release
release ==
    /\ calls < MaxPoolOps
    /\ ~Panicked
    /\ \E capacity \in ReleasedCapacities :
        IF HasRoom(available)
        THEN \E pos \in partition_point(available, capacity) :
             /\ available' = insert(available, pos, capacity)
             /\ last' = Call("release", capacity, "Unit", pos, <<"pooled">>)
        ELSE /\ UNCHANGED available
             /\ last' = Call("release", capacity, "Unit", 0, <<"discarded">>)
    /\ calls' = calls + 1
    /\ UNCHANGED <<now, allocations, reuses, fenceVars, tbVars, pmVars, cacheVars>>

\* VertexBufferPool::stats returns (allocations, reuses, pooled count); the
\* call is recorded with the pooled count.
stats ==
    /\ calls < MaxPoolOps
    /\ ~Panicked
    /\ last' = Call("stats", 0, "Ok", Len(available), <<>>)
    /\ calls' = calls + 1
    /\ UNCHANGED <<now, poolVars, fenceVars, tbVars, pmVars, cacheVars>>

\* VertexBufferPool::clear
clear ==
    /\ calls < MaxPoolOps
    /\ ~Panicked
    /\ available' = <<>>
    /\ last' = Call("clear", 0, "Unit", 0, <<>>)
    /\ calls' = calls + 1
    /\ UNCHANGED <<now, allocations, reuses, fenceVars, tbVars, pmVars, cacheVars>>

\* ========================================================= callback caches
\* The process-wide caches behind their mutexes: WINDOW_TITLE_CACHE and
\* STATUS_CACHE are CallbackCache<T>, TAB_TITLE_CACHE is a TabTitleCache.
CacheNames == {"window_title", "status", "tab_title"}
CallbackCaches == {"window_title", "status"}

\* Cache keys (WindowTitleKey, StatusKey, TabCacheKey) and cached values.
CacheKeys == 0..2
CacheValues == 1..2
\* The threads that call the cached getters.
Threads == 1..2

\* CallbackCache::hash_key: DefaultHasher's u64 of the key.  The keys hold
\* strings, so there are more keys than hashes: HashModulus hashes here.
hash_key(key) == key % HashModulus

\* HashMap::new(), as a function from slot to Option<entry>.  A CallbackCache
\* is a HashMap<u64, CacheEntry<T>> whose slots are hashes, a TabTitleCache a
\* HashMap<TabCacheKey, CachedTitleEntry> whose slots are keys.
NoEntries == [s \in CacheKeys |-> <<>>]

\* HashMap::len
EntryCount(entries) == Cardinality({s \in DOMAIN entries : entries[s] # <<>>})

\* HashMap::retain(|_, entry| entry.generation == current_generation)
retain(entries, current_generation) ==
    [s \in DOMAIN entries |->
        IF entries[s] # <<>> /\ entries[s][1].generation = current_generation
        THEN entries[s] ELSE <<>>]

\* CallbackCache::new and TabTitleCache::new
Cache_new == [entries |-> NoEntries, generation |-> 0]

\* CallbackCache::get
CallbackCache_get(cache, key) ==
    LET entry == cache.entries[hash_key(key)]
    IN  IF entry # <<>> /\ entry[1].generation = cache.generation
        THEN <<entry[1].value>> ELSE <<>>

\* CallbackCache::insert
CallbackCache_insert(cache, key, value) ==
    [cache EXCEPT !.entries[hash_key(key)] =
        <<[value |-> value, generation |-> cache.generation]>>]

\* CallbackCache::invalidate.  The generation is a usize that wraps; within
\* the calls of a behaviour it does not get there.
CallbackCache_invalidate(cache) ==
    LET current_generation == cache.generation + 1
    IN  [entries |-> retain(cache.entries, current_generation),
         generation |-> current_generation]

\* CallbackCache::clear
CallbackCache_clear(cache) == [cache EXCEPT !.entries = NoEntries]

\* TabTitleCache::get
TabTitleCache_get(cache, key) ==
    LET entry == cache.entries[key]
    IN  IF entry # <<>> /\ entry[1].generation = cache.generation
        THEN <<entry[1].value>> ELSE <<>>

\* TabTitleCache::insert; computed_at is never read and is left out.
TabTitleCache_insert(cache, key, title) ==
    [cache EXCEPT !.entries[key] =
        <<[value |-> title, generation |-> cache.generation]>>]

\* TabTitleCache::invalidate
TabTitleCache_invalidate(cache) ==
    LET current_generation == cache.generation + 1
    IN  [entries |-> retain(cache.entries, current_generation),
         generation |-> current_generation]

\* TabTitleCache::clear
TabTitleCache_clear(cache) ==
    [entries |-> NoEntries, generation |-> cache.generation + 1]

\* The method of the cache named c.
Cache_get(c, key) ==
    IF c \in CallbackCaches THEN CallbackCache_get(caches[c], key)
    ELSE TabTitleCache_get(caches[c], key)
Cache_insert(c, key, value) ==
    IF c \in CallbackCaches THEN CallbackCache_insert(caches[c], key, value)
    ELSE TabTitleCache_insert(caches[c], key, value)
Cache_invalidate(c) ==
    IF c \in CallbackCaches THEN CallbackCache_invalidate(caches[c])
    ELSE TabTitleCache_invalidate(caches[c])
Cache_clear(c) ==
    IF c \in CallbackCaches THEN CallbackCache_clear(caches[c])
    ELSE TabTitleCache_clear(caches[c])

\* A thread that is in no cached getter.
Idle == [pc |-> "idle", cache |-> "", key |-> 0, began |-> 0, result |-> <<>>]

\* The getter calls that have not returned yet.
InFlight == Cardinality({t \in Threads : getter[t].pc # "idle"})

CacheInit ==
    /\ caches = [c \in CacheNames |-> Cache_new]
    /\ inserted = [c \in CacheNames |-> [k \in CacheKeys |-> 0]]
    /\ invalidations = [c \in CacheNames |-> 0]
    /\ getter = [t \in Threads |-> Idle]

\* cache.get(&key) on one of the caches.
cache_get ==
    /\ calls < MaxCacheOps
    /\ \E c \in CacheNames, key \in CacheKeys :
        LET found == Cache_get(c, key)
        IN  last' = Call("get", [cache |-> c, key |-> key],
                         IF found = <<>> THEN "None" ELSE "Some",
                         IF found = <<>> THEN 0 ELSE found[1], <<>>)
    /\ calls' = calls + 1
    /\ UNCHANGED <<now, fenceVars, tbVars, pmVars, poolVars, cacheVars>>

\* cache.insert(key, value) on one of the caches.
cache_insert ==
    /\ calls < MaxCacheOps
    /\ \E c \in CacheNames, key \in CacheKeys, value \in CacheValues :
        /\ caches' = [caches EXCEPT ![c] = Cache_insert(c, key, value)]
        /\ inserted' = [inserted EXCEPT ![c][key] = value]
        /\ last' = Call("insert", [cache |-> c, key |-> key], "Unit", value, <<>>)
    /\ calls' = calls + 1
    /\ UNCHANGED <<now, invalidations, getter, lua_caches, fenceVars, tbVars,
                   pmVars, poolVars>>

\* cache.invalidate() on one of the caches, which is all that
\* invalidate_window_title_cache, invalidate_status_cache and
\* invalidate_tab_title_cache do under the cache's lock; invalidate_all_caches
\* is the three of them one after the other.
Invalidate ==
    /\ \E c \in CacheNames :
        /\ caches' = [caches EXCEPT ![c] = Cache_invalidate(c)]
        /\ inserted' = [inserted EXCEPT ![c] = [k \in CacheKeys |-> 0]]
        /\ invalidations' = [invalidations EXCEPT ![c] = @ + 1]
        /\ last' = Call("invalidate", [cache |-> c, key |-> 0], "Unit", 0, <<>>)
    /\ calls' = calls + 1
    /\ UNCHANGED <<now, getter, lua_caches, fenceVars, tbVars, pmVars, poolVars>>

cache_invalidate == calls < MaxCacheOps /\ Invalidate

\* An invalidate function called while getters are running.
invalidate_cache == calls + InFlight < MaxGetterOps /\ Invalidate

\* cache.clear() on one of the caches (clear_tab_title_cache for
\* TAB_TITLE_CACHE).
cache_clear ==
    /\ calls < MaxCacheOps
    /\ \E c \in CacheNames :
        /\ caches' = [caches EXCEPT ![c] = Cache_clear(c)]
        /\ inserted' = [inserted EXCEPT ![c] = [k \in CacheKeys |-> 0]]
        /\ last' = Call("clear", [cache |-> c, key |-> 0], "Unit", 0, <<>>)
    /\ calls' = calls + 1
    /\ UNCHANGED <<now, invalidations, getter, lua_caches, fenceVars, tbVars,
                   pmVars, poolVars>>

\* get_window_title_cached, get_status_cached, get_tab_title_cached, first
\* block: under the lock, a hit returns the cached value; on a miss the lock
\* is released and the thread goes on to compute_fn.
getter_lookup(t) ==
    /\ getter[t].pc = "idle"
    /\ calls + InFlight < MaxGetterOps
    /\ \E c \in CacheNames, key \in CacheKeys :
        LET cached == Cache_get(c, key)
        IN  IF cached # <<>>
            THEN /\ last' = Call("get_cached", [cache |-> c, key |-> key],
                                 "cached", cached[1], <<>>)
                 /\ calls' = calls + 1
                 /\ UNCHANGED getter
            ELSE /\ getter' = [getter EXCEPT ![t] =
                                 [pc |-> "compute", cache |-> c, key |-> key,
                                  began |-> invalidations[c], result |-> <<>>]]
                 /\ UNCHANGED <<calls, last>>
    /\ UNCHANGED <<now, caches, inserted, invalidations, lua_caches, fenceVars,
                   tbVars, pmVars, poolVars>>

\* `let result = compute_fn();`, run with no lock held.  What it computes
\* reflects the state of the window at that moment: the value is the number
\* of invalidations of the cache that have returned, plus one; or it is None.
getter_compute(t) ==
    /\ getter[t].pc = "compute"
    /\ \E some \in BOOLEAN :
        getter' = [getter EXCEPT
                     ![t].pc = "store",
                     ![t].result = IF some
                                   THEN <<invalidations[getter[t].cache] + 1>>
                                   ELSE <<>>]
    /\ UNCHANGED <<now, calls, last, caches, inserted, invalidations, lua_caches,
                   fenceVars, tbVars, pmVars, poolVars>>

\* `match result`: Some(value) is inserted under the lock and returned; None
\* returns the default, which is not cached.
getter_store(t) ==
    /\ getter[t].pc = "store"
    /\ LET c == getter[t].cache
           key == getter[t].key
           result == getter[t].result
       IN  IF result # <<>>
           THEN /\ caches' = [caches EXCEPT ![c] = Cache_insert(c, key, result[1])]
                /\ inserted' = [inserted EXCEPT ![c][key] = result[1]]
                /\ last' = Call("get_cached", [cache |-> c, key |-> key],
                                "computed", result[1], <<>>)
           ELSE /\ UNCHANGED <<caches, inserted>>
                /\ last' = Call("get_cached", [cache |-> c, key |-> key],
                                "default", 0, <<>>)
    /\ getter' = [getter EXCEPT ![t] = Idle]
    /\ calls' = calls + 1
    /\ UNCHANGED <<now, invalidations, lua_caches, fenceVars, tbVars, pmVars,
                   poolVars>>

\* ========================================================= Lua table caches
\* TAB_LUA_CACHE ("tabs") and PANE_LUA_CACHE ("panes").
LuaCacheNames == {"tabs", "panes"}
\* TabId / PaneId
LuaIds == 0..1

\* LuaTableCache::new; an entry is kept as its generation, the registry key
\* it holds is not told apart.
LuaTableCache_new == [entries |-> [id \in LuaIds |-> <<>>], generation |-> 0]

\* LuaTableCache::get_or_create, lines 76-82: the entry that makes a hit.
LuaTableCache_hit(cache, id) ==
    cache.entries[id] # <<>> /\ cache.entries[id][1].generation = cache.generation

\* LuaTableCache::get_or_create, lines 89-96: the entry stored on a miss.
LuaTableCache_store(cache, id) ==
    [cache EXCEPT !.entries[id] = <<[generation |-> cache.generation]>>]

\* LuaTableCache::invalidate
LuaTableCache_invalidate(cache) == [cache EXCEPT !.generation = @ + 1]

\* LuaTableCache::clear
LuaTableCache_clear(cache) ==
    [cache EXCEPT !.entries = [id \in LuaIds |-> <<>>]]

\* LuaTableCache::cleanup_old_generations
LuaTableCache_cleanup_old_generations(cache) ==
    [cache EXCEPT !.entries = retain(cache.entries, cache.generation)]

\* LuaTableCache::len
LuaTableCache_len(cache) == EntryCount(cache.entries)

LuaCacheInit == lua_caches = [c \in LuaCacheNames |-> LuaTableCache_new]

\* get_or_create(lua, id, data, create_fn).  ok: whether the Lua calls
\* (registry_value on a hit, create_fn and create_registry_value on a miss)
\* succeed; a failure returns the error and stores nothing.
lua_get_or_create ==
    /\ calls < MaxLuaOps
    /\ \E c \in LuaCacheNames, id \in LuaIds, ok \in BOOLEAN :
        LET hit == LuaTableCache_hit(lua_caches[c], id)
        IN  /\ lua_caches' =
                 IF hit \/ ~ok THEN lua_caches
                 ELSE [lua_caches EXCEPT ![c] = LuaTableCache_store(@, id)]
            /\ last' = Call("get_or_create", [cache |-> c, key |-> id],
                            IF ok THEN "Ok" ELSE "Err", 0,
                            IF hit THEN <<"registry_value">>
                            ELSE IF ok THEN <<"create_fn", "create_registry_value">>
                            ELSE <<"create_fn">>)
    /\ calls' = calls + 1
    /\ UNCHANGED <<now, caches, inserted, invalidations, getter, fenceVars,
                   tbVars, pmVars, poolVars>>

\* invalidate_tab_cache / invalidate_pane_cache: cache.invalidate() under the
\* lock; invalidate_all_lua_caches is the two one after the other.
lua_invalidate ==
    /\ calls < MaxLuaOps
    /\ \E c \in LuaCacheNames :
        /\ lua_caches' = [lua_caches EXCEPT ![c] = LuaTableCache_invalidate(@)]
        /\ last' = Call("invalidate", [cache |-> c, key |-> 0], "Unit", 0, <<>>)
    /\ calls' = calls + 1
    /\ UNCHANGED <<now, caches, inserted, invalidations, getter, fenceVars,
                   tbVars, pmVars, poolVars>>

\* cache.clear() on one of the caches.
lua_clear ==
    /\ calls < MaxLuaOps
    /\ \E c \in LuaCacheNames :
        /\ lua_caches' = [lua_caches EXCEPT ![c] = LuaTableCache_clear(@)]
        /\ last' = Call("clear", [cache |-> c, key |-> 0], "Unit", 0, <<>>)
    /\ calls' = calls + 1
    /\ UNCHANGED <<now, caches, inserted, invalidations, getter, fenceVars,
                   tbVars, pmVars, poolVars>>

\* cleanup_lua_caches: cleanup_old_generations on the tab cache, then on the
\* pane cache, each under its own lock.
cleanup_lua_caches ==
    /\ calls < MaxLuaOps
    /\ lua_caches' = [c \in LuaCacheNames |->
                        LuaTableCache_cleanup_old_generations(lua_caches[c])]
    /\ last' = Call("cleanup_lua_caches", 0, "Unit", 0, <<>>)
    /\ calls' = calls + 1
    /\ UNCHANGED <<now, caches, inserted, invalidations, getter, fenceVars,
                   tbVars, pmVars, poolVars>>

\* get_cache_stats returns (tab count, pane count); the call is recorded with
\* their sum.
get_cache_stats ==
    /\ calls < MaxLuaOps
    /\ last' = Call("get_cache_stats", 0, "Ok",
                    LuaTableCache_len(lua_caches["tabs"])
                      + LuaTableCache_len(lua_caches["panes"]), <<>>)
    /\ calls' = calls + 1
    /\ UNCHANGED <<now, fenceVars, tbVars, pmVars, poolVars, cacheVars>>

\* ------------------------------------------------------------ specification
\* Each manager freshly constructed, the presentation manager with hz.
InitWith(hz) ==
    /\ now = 0
    /\ calls = 0
    /\ last = Call("new", 0, "Unit", 0, <<>>)
    /\ FenceInit
    /\ TBInit
    /\ PresentationManager_new(hz)
    /\ PoolInit
    /\ CacheInit
    /\ LuaCacheInit

\* PresentationManager::default() is new(60).
Init == InitWith(60)

FenceNext ==
    \/ create_fence
    \/ wait_for_fence
    \/ is_fence_signaled
    \/ drop_manager

FenceSpec == Init /\ [][FenceNext]_vars

BufferNext ==
    \/ acquire_buffer
    \/ queue_current_buffer
    \/ mark_displayed
    \/ release_buffer

BufferSpec == Init /\ [][BufferNext]_vars

PresentInit == \E hz \in RefreshRates : InitWith(hz)

PresentNext ==
    \/ record_feedback
    \/ predict_next_vsync
    \/ optimal_render_start
    \/ should_render_now

PresentSpec == PresentInit /\ [][PresentNext]_vars

\* The render loop: one should_render_now poll per frame time.
poll_should_render_now ==
    /\ calls < MaxLoopOps
    /\ \E d \in PresentDelays \ {0} : ShouldRenderNow(d)

\* The compositor delivers a feedback to the loop.
deliver_feedback ==
    /\ total_feedbacks < MaxLoopFeedbacks
    /\ record_feedback

RenderLoopNext ==
    \/ deliver_feedback
    \/ poll_should_render_now

\* The loop keeps polling: a poll that stays possible is eventually made.
RenderLoopSpec ==
    PresentInit /\ [][RenderLoopNext]_vars /\ WF_vars(poll_should_render_now)

\* The render loop acquires a buffer only after it has queued the one it
\* acquired before.
loop_acquire_buffer ==
    /\ calls < MaxSteadyOps
    /\ ~frame_open
    /\ AcquireBuffer

loop_queue_current_buffer ==
    /\ calls < MaxSteadyOps
    /\ QueueCurrentBuffer

\* Notifications arrive for any id, in any order.
notify_mark_displayed ==
    /\ calls < MaxSteadyOps
    /\ \E buffer_id \in 0..3 : MarkDisplayed(buffer_id)

notify_release_buffer ==
    /\ calls < MaxSteadyOps
    /\ \E buffer_id \in 0..3 : ReleaseBuffer(buffer_id)

PairedNext ==
    \/ loop_acquire_buffer
    \/ loop_queue_current_buffer
    \/ notify_mark_displayed
    \/ notify_release_buffer

PairedSpec == Init /\ [][PairedNext]_vars

\* The compositor reports a buffer displayed only while no other buffer is
\* Displayed: it has released the one it showed before.
compositor_mark_displayed ==
    /\ calls < MaxSteadyOps
    /\ \E buffer_id \in 0..3 :
          /\ \A j \in BufferIds \ {buffer_id} : buffers[j].state # "Displayed"
          /\ MarkDisplayed(buffer_id)

SteadyNext ==
    \/ loop_acquire_buffer
    \/ loop_queue_current_buffer
    \/ compositor_mark_displayed
    \/ notify_release_buffer

SteadySpec == Init /\ [][SteadyNext]_vars

PoolNext ==
    \/ acquire
    \/ release
    \/ stats
    \/ clear

PoolSpec == Init /\ [][PoolNext]_vars

\* The methods of the three callback caches, called one at a time.
CacheNext ==
    \/ cache_get
    \/ cache_insert
    \/ cache_invalidate
    \/ cache_clear

CacheSpec == Init /\ [][CacheNext]_vars

\* The cached getters called from several threads, each a lookup, the
\* computation and the store, interleaved with each other and with the
\* invalidate functions.
GetterNext ==
    \/ \E t \in Threads : getter_lookup(t)
    \/ \E t \in Threads : getter_compute(t)
    \/ \E t \in Threads : getter_store(t)
    \/ invalidate_cache

GetterSpec == Init /\ [][GetterNext]_vars

LuaCacheNext ==
    \/ lua_get_or_create
    \/ lua_invalidate
    \/ lua_clear
    \/ cleanup_lua_caches
    \/ get_cache_stats

LuaCacheSpec == Init /\ [][LuaCacheNext]_vars

Next ==
    \/ FenceNext \/ BufferNext \/ PairedNext \/ SteadyNext
    \/ PresentNext \/ RenderLoopNext \/ PoolNext
    \/ CacheNext \/ GetterNext \/ LuaCacheNext

Spec == Init /\ [][Next]_vars

\* ================================================================== claims
\* An API call named op is made in this step.
Step(op) == calls' = calls + 1 /\ last'.op = op

HasEffect(ext, e) == \E i \in 1..Len(ext) : ext[i] = e

\* ---- C1: every sync object CreateSync returned is passed to DestroySync
\* exactly once by the time the manager is torn down, whether it was waited on,
\* replaced or still pending; none is destroyed twice, none is left.
C1_DestroyedExactlyOnce ==
    /\ \A s \in 1..Len(sync_destroyed) : sync_destroyed[s] <= 1
    /\ ~fm_alive => \A s \in 1..Len(sync_destroyed) : sync_destroyed[s] = 1

\* A torn-down manager that created three fences: one waited on, one replaced,
\* one still pending at teardown.
C1_Witness ==
    /\ ~fm_alive
    /\ Len(sync_destroyed) = 3
    /\ total_waits = 1
    /\ last.op = "drop" /\ HasEffect(last.ext, "DestroySync")

\* ---- C2: between operations at most one fence is pending and the live sync
\* objects are exactly the pending fence's (none or one); after a successful
\* create_fence the new fence is pending and every older one is destroyed.
C2_LiveIsPending ==
    /\ Len(pending_fence) <= 1
    /\ LiveSyncs = {pending_fence[i].sync : i \in 1..Len(pending_fence)}
    /\ Cardinality(LiveSyncs) = Len(pending_fence)
    /\ (last.op = "create_fence" /\ last.ret = "Ok") =>
          /\ pending_fence = <<[sync |-> Len(sync_destroyed)]>>
          /\ \A s \in 1..(Len(sync_destroyed) - 1) : sync_destroyed[s] = 1

\* A successful create_fence that replaced a pending fence.
C2_Witness ==
    /\ last.op = "create_fence" /\ last.ret = "Ok"
    /\ HasEffect(last.ext, "DestroySync")
    /\ Len(sync_destroyed) >= 2

\* ---- C3: a wait_for_fence that found a pending fence destroys it and leaves
\* no fence pending, whatever the outcome; until the next create_fence nothing
\* becomes pending, and a wait_for_fence that finds nothing pending reports None.
C3_Consumed ==
    (last.op = "wait_for_fence" /\ last.ret # "None") =>
        /\ pending_fence = <<>>
        /\ LiveSyncs = {}
        /\ Count(last.ext, "DestroySync") = 1

C3_StaysEmpty ==
    /\ (pending_fence = <<>> /\ ~Step("create_fence")) => pending_fence' = <<>>
    /\ (pending_fence = <<>> /\ Step("wait_for_fence")) => last'.ret = "None"

\* C3: the consumed state after a wait that found a fence, and the steps that
\* keep the manager empty until the next create_fence.
C3_WaitConsumes == []C3_Consumed /\ [][C3_StaysEmpty]_vars

\* A wait that timed out on a pending fence, followed by a wait that found none.
C3_Witness ==
    /\ last.op = "wait_for_fence" /\ last.ret = "None"
    /\ total_waits = 1 /\ total_timeouts = 1
    /\ total_fences_created = 1
    /\ calls = 3

\* ---- C4: wait_for_fence with no pending fence returns None, makes no
\* external call and leaves every statistic unchanged.
C4_EmptyWait ==
    [][(Step("wait_for_fence") /\ pending_fence = <<>>) =>
          /\ last'.ret = "None"
          /\ last'.ext = <<>>
          /\ UNCHANGED <<fenceStats, sync_destroyed, pending_fence>>]_vars

\* A wait on an empty manager whose statistics are not all zero.
C4_Witness ==
    /\ last.op = "wait_for_fence" /\ last.ret = "None"
    /\ total_waits >= 1 /\ total_wait_time >= 1 /\ total_timeouts >= 1

\* ---- C5: when CreateSync returns NO_SYNC, create_fence returns the error
\* after that one attempt, total_fences_created is unchanged and a fence
\* pending before the call is still pending and not destroyed.
C5_CreateFails ==
    [][(Step("create_fence") /\ HasEffect(last'.ext, "CreateSync:NO_SYNC")) =>
          /\ last'.ret = "Err"
          /\ Count(last'.ext, "CreateSync:NO_SYNC") = 1
          /\ ~HasEffect(last'.ext, "CreateSync:sync")
          /\ ~HasEffect(last'.ext, "DestroySync")
          /\ UNCHANGED <<total_fences_created, pending_fence, sync_destroyed>>]_vars

\* A failed create_fence with a fence pending.
C5_Witness ==
    /\ last.op = "create_fence" /\ last.ret = "Err"
    /\ pending_fence # <<>>
    /\ LiveSyncs # {}

\* ---- C6: after three consecutive acquire_buffer calls on a fresh manager, a
\* fourth acquire_buffer returns a buffer id, not None.
C6_FourthAcquireReturnsId ==
    (calls = 4 /\ acquire_calls = 4) => last.ret = "Some"

\* ---- C7: with a slot Available, acquire_buffer returns the lowest-numbered
\* Available slot, moves exactly that slot to Rendering, makes it
\* current_buffer and adds one to total_frames; the first three calls on a
\* fresh manager return 0, 1, 2.
C7_Step ==
    (Step("acquire_buffer") /\ \E i \in BufferIds : buffers[i].state = "Available") =>
        \E m \in BufferIds :
            /\ buffers[m].state = "Available"
            /\ \A j \in 0..(m - 1) : buffers[j].state # "Available"
            /\ last'.ret = "Some" /\ last'.val = m
            /\ buffers'[m].state = "Rendering"
            /\ \A j \in BufferIds \ {m} : buffers'[j] = buffers[j]
            /\ current_buffer' = m
            /\ total_frames' = total_frames + 1

C7_FreshOrder ==
    (acquire_calls = calls /\ calls \in 1..3) =>
        (last.ret = "Some" /\ last.val = calls - 1)

\* C7: the first-three order on a fresh manager, and every acquire_buffer step
\* that finds a slot Available.
C7_LowestAvailable == []C7_FreshOrder /\ [][C7_Step]_vars

\* acquire_buffer took slot 1 while slot 2 was Available too and slot 0 had
\* been through a cycle.
C7_Witness ==
    /\ last.op = "acquire_buffer" /\ last.ret = "Some" /\ last.val = 1
    /\ buffers[2].state = "Available"
    /\ buffers[0].state = "Queued"

\* ---- C8: acquire_buffer (returning id), queue_current_buffer,
\* mark_displayed(id), release_buffer(id) in a row take slot id through
\* Rendering, Queued, Displayed, Available, each step stamping the slot no
\* earlier than before and leaving the other slots' states alone.
LifecycleState(stage) ==
    CASE stage = 1 -> "Rendering"
      [] stage = 2 -> "Queued"
      [] stage = 3 -> "Displayed"
      [] stage = 4 -> "Available"

C8_Lifecycle ==
    [][(calls' = calls + 1 /\ lifecycle'.stage >= 1) =>
          /\ buffers'[lifecycle'.id].state = LifecycleState(lifecycle'.stage)
          /\ buffers'[lifecycle'.id].state_changed >= buffers[lifecycle'.id].state_changed
          /\ buffers'[lifecycle'.id].state_changed = now'
          /\ \A j \in BufferIds \ {lifecycle'.id} :
                buffers'[j].state = buffers[j].state]_vars

\* The whole sequence completed on slot 1, its last stamp later than its first.
C8_Witness ==
    /\ lifecycle.stage = 4 /\ lifecycle.id = 1
    /\ last.op = "release_buffer"
    /\ buffers[1].state_changed > buffers[0].state_changed

\* ---- C9: with no slot Available and some slot Queued, acquire_buffer moves
\* to Rendering the Queued slot with the oldest state_changed, makes it
\* current_buffer, returns its id and leaves the other slots unchanged.
C9_OldestQueuedReused ==
    [][(/\ Step("acquire_buffer")
        /\ \A i \in BufferIds : buffers[i].state # "Available"
        /\ \E i \in BufferIds : buffers[i].state = "Queued") =>
          \E c \in BufferIds :
            /\ buffers[c].state = "Queued"
            /\ \A j \in BufferIds : buffers[j].state = "Queued" =>
                  buffers[c].state_changed <= buffers[j].state_changed
            /\ last'.ret = "Some" /\ last'.val = c
            /\ buffers'[c].state = "Rendering"
            /\ current_buffer' = c
            /\ \A j \in BufferIds \ {c} : buffers'[j] = buffers[j]]_vars

C11_StarvationCounted ==
    [][calls' = calls + 1 =>
          buffer_starvation_count' =
            IF /\ last'.op = "acquire_buffer"
               /\ \A i \in BufferIds : buffers[i].state # "Available"
            THEN buffer_starvation_count + 1
            ELSE buffer_starvation_count]_vars

\* Two starved calls counted: one served by reusing a Queued slot, the next
\* answered None within the warning's rate limit.
C11_Witness ==
    /\ buffer_starvation_count = 2
    /\ last.op = "acquire_buffer" /\ last.ret = "None" /\ last.ext = <<>>
    /\ acquire_calls = 4 /\ acquire_some = 3

\* ---- C12: mark_displayed(id) and release_buffer(id) with id >= 3 return
\* normally and leave the slots, current_buffer and the counters unchanged;
\* with id in 0..2 they change slot id only.
C12_Step(op, state) ==
    Step(op) =>
        /\ last'.ret = "Unit"
        /\ UNCHANGED <<current_buffer, total_frames, buffer_starvation_count,
                       last_starvation_warning>>
        /\ IF last'.arg >= 3
           THEN UNCHANGED buffers
           ELSE /\ buffers'[last'.arg].state = state
                /\ buffers'[last'.arg].use_count = buffers[last'.arg].use_count
                /\ \A j \in BufferIds \ {last'.arg} : buffers'[j] = buffers[j]

C12_OutOfRangeIgnored ==
    [][/\ C12_Step("mark_displayed", "Displayed")
       /\ C12_Step("release_buffer", "Available")]_vars

\* release_buffer(3) on a manager whose slots are Rendering, Queued and Displayed.
C12_Witness ==
    /\ last.op = "release_buffer" /\ last.arg = 3
    /\ last.ext = <<"error:invalid buffer_id">>
    /\ \A i \in BufferIds : buffers[i].state # "Available"
    /\ total_frames >= 1

\* ---- C13: whatever feedback the compositor delivers (any refresh_interval,
\* zero included, any present_time), record_feedback followed by
\* predict_next_vsync, optimal_render_start and should_render_now never panics.
C13_NeverPanics == ~Panicked

\* ---- C15: with no feedback ever recorded, should_render_now(budget) returns
\* true, for every budget.
C15_TrueWithoutFeedback ==
    [][Step("should_render_now") /\ total_feedbacks = 0 =>
          last'.ret = "true"]_vars

\* The next multiple of refresh_interval after present_time that lies strictly
\* after t: present_time + refresh_interval * (floor(elapsed / interval) + 1).
NextVsyncAfter(fb, t) ==
    fb.present_time + fb.refresh_interval
        * (duration_since(t, fb.present_time) \div fb.refresh_interval + 1)

\* ---- C16: predict_next_vsync returns an instant strictly later than the time
\* of the call: with a last feedback whose present_time is not after now and
\* whose refresh_interval is not zero, present_time + k * refresh_interval for
\* the smallest k >= 1 that lies strictly after now; with no feedback, now plus
\* the estimated refresh interval.
C16_NextVsyncStrictlyLater ==
    [][Step("predict_next_vsync") /\ last'.ret = "Instant" =>
          /\ last'.val > call_time'
          /\ last_feedback = <<>> =>
                last'.val = call_time' + estimated_refresh_interval
          /\ ( /\ last_feedback # <<>>
               /\ last_feedback[1].present_time <= call_time'
               /\ last_feedback[1].refresh_interval # 0 ) =>
                last'.val = NextVsyncAfter(last_feedback[1], call_time')]_vars

\* ---- C17: with a feedback recorded, optimal_render_start(budget) returns
\* predicted_vsync - budget when that instant is still in the future and
\* predicted_vsync otherwise; the result is never later than the predicted
\* vsync and never earlier than the time of the call.
C17_RenderStartWindow ==
    [][Step("optimal_render_start") /\ last'.ret = "Instant"
          /\ last_feedback # <<>> =>
          LET predicted_vsync == NextVsyncAfter(last_feedback[1], call_time')
              budget == last'.arg
          IN  /\ last'.val \in {predicted_vsync - budget, predicted_vsync}
              /\ predicted_vsync - budget > now' =>
                    last'.val = predicted_vsync - budget
              /\ predicted_vsync - budget <= call_time' =>
                    last'.val = predicted_vsync
              /\ last'.val <= predicted_vsync
              /\ last'.val >= call_time']_vars

\* The last call was a should_render_now that answered true.
GateOpened == last.op = "should_render_now" /\ last.ret = "true"

EwmaStep == Step("record_feedback") /\ last_feedback # <<>>

\* ---- C18 as stated: with a previous feedback, record_feedback sets the
\* estimate to 0.9 * old + 0.1 * (new present_time - previous present_time),
\* here to within 2 ns of rounding; the feedback's refresh_interval field does
\* not enter.
C18_EwmaOfSpacing ==
    [][EwmaStep =>
          LET exact10 == 9 * estimated_refresh_interval + last'.val
          IN  /\ 10 * estimated_refresh_interval' > exact10 - 20
              /\ 10 * estimated_refresh_interval' < exact10 + 20]_vars

\* ---- C18 amended: with a previous feedback, record_feedback sets the
\* estimate to 0.9 * old + 0.1 * interval to within 2 ns of rounding, where
\* interval is new present_time - previous present_time, or zero when the new
\* present_time is the earlier one; the refresh_interval field does not enter.
C18_EwmaOfSaturatedSpacing ==
    [][EwmaStep =>
          LET exact10 == 9 * estimated_refresh_interval + Max(last'.val, 0)
          IN  /\ 10 * estimated_refresh_interval' > exact10 - 20
              /\ 10 * estimated_refresh_interval' < exact10 + 20]_vars

\* A second feedback presented one frame before the first, reporting an
\* interval of 5 ms: the estimate is nine tenths of the 60 Hz default.
C18_Witness ==
    /\ last.op = "record_feedback" /\ last.val = -16666667
    /\ last.arg = 5000000
    /\ total_feedbacks = 2 /\ default_refresh_hz = 60
    /\ estimated_refresh_interval \in {14999999, 15000000}

\* ---- C19: from construction until a second feedback is recorded the
\* estimate is the configured default, floor(10^9 / default_hz) ns, which for
\* 60 Hz is a rate within 0.1 of 60; the first feedback does not change it.
C19_DefaultUntilSecondFeedback ==
    total_feedbacks <= 1 =>
        /\ estimated_refresh_interval = 1000000000 \div default_refresh_hz
        /\ default_refresh_hz = 60 =>
              estimated_refresh_interval \in 16638936..16694490

\* One feedback recorded, reporting 5 ms; the estimate is still 1/60 s.
C19_Witness ==
    /\ total_feedbacks = 1 /\ last.op = "record_feedback"
    /\ last_feedback[1].refresh_interval = 5000000
    /\ default_refresh_hz = 60 /\ estimated_refresh_interval = 16666666

\* An EwmaStep whose spacing d >= 0 continues a constant spacing: it is the
\* first spacing measured, or equals the one measured by the previous call.
ConstantSpacingStep ==
    /\ EwmaStep
    /\ last'.val >= 0
    /\ total_feedbacks = 1 \/ (last.op = "record_feedback" /\ last.val = last'.val)

\* ---- C20 as stated: with feedbacks at a constant spacing d, every
\* record_feedback moves the estimate toward d, never away from it and never
\* past it, the remaining error being 0.9 times the error before (here to
\* within 1 ns).
C20_ConvergesExactly ==
    [][ConstantSpacingStep =>
          LET error == estimated_refresh_interval - last'.val
              error_after == estimated_refresh_interval' - last'.val
          IN  /\ error >= 0 => (0 <= error_after /\ error_after <= error)
              /\ error <= 0 => (error <= error_after /\ error_after <= 0)
              /\ 10 * error_after >= 9 * error - 10
              /\ 10 * error_after <= 9 * error + 10]_vars

\* ---- C20 amended: with feedbacks at a constant spacing d, the error after
\* every record_feedback is 0.9 times the error before it to within 2 ns of
\* rounding; the estimate moves toward d without passing it while it is more
\* than 20 ns away from d.
C20_ConvergesWithinRounding ==
    [][ConstantSpacingStep =>
          LET error == estimated_refresh_interval - last'.val
              error_after == estimated_refresh_interval' - last'.val
          IN  /\ 10 * error_after > 9 * error - 20
              /\ 10 * error_after < 9 * error + 20
              /\ error > 20 => (0 <= error_after /\ error_after < error)
              /\ error < -20 => (error < error_after /\ error_after <= 0)]_vars

\* Three feedbacks one frame (16 666 667 ns) apart from the 60 Hz default of
\* 16 666 666 ns: truncation has moved the estimate 3 ns away from the spacing.
C20_Witness ==
    /\ last.op = "record_feedback" /\ last.val = 16666667
    /\ total_feedbacks = 3 /\ default_refresh_hz = 60
    /\ estimated_refresh_interval = 16666664

\* ---- C21: a successful acquire(min_quads) returns a capacity >= min_quads,
\* on reuse and on allocation, for every min_quads of the word range,
\* including those whose next power of two does not fit the word.
C21_CapacityCoversRequest ==
    [][Step("acquire") /\ last'.ret = "Ok" => last'.val >= last'.arg]_vars

\* ---- C22: acquire(min_quads) reuses a pooled buffer if and only if some
\* pooled entry has capacity >= min_quads; a reuse adds one to reuses, leaves
\* allocations and takes one entry out of the pool; a miss leaves reuses and
\* the pool unchanged and, when it returns a buffer, adds one to allocations.
C22_ReuseIffFits ==
    [][Step("acquire") =>
          LET fits == \E i \in 1..Len(available) : available[i] >= last'.arg
          IN  /\ HasEffect(last'.ext, "reused") <=> fits
              /\ fits => /\ last'.ret = "Ok"
                         /\ reuses' = reuses + 1
                         /\ allocations' = allocations
                         /\ Len(available') = Len(available) - 1
              /\ ~fits => /\ reuses' = reuses
                          /\ available' = available
                          /\ last'.ret = "Ok" => allocations' = allocations + 1
                          /\ last'.ret # "Ok" => allocations' = allocations]_vars

\* acquire(100) allocated 128, the buffer was released, acquire(33) got it back.
C22_Witness ==
    /\ last = Call("acquire", 33, "Ok", 128, <<"reused">>)
    /\ allocations = 1 /\ reuses = 1 /\ available = <<>>

\* ---- C23: on a miss acquire(min_quads) allocates a buffer of capacity
\* exactly max(32, next power of two of min_quads): 32 for every request up to
\* 32, the smallest power of two >= min_quads above that.
C23_AllocatedCapacity ==
    [][Step("acquire") /\ HasEffect(last'.ext, "allocated") =>
          last'.val = Max(32, PowerOfTwoAtLeast(1, last'.arg))]_vars

\* ---- C24: the pool never holds more than 8 entries, and a release made
\* while 8 are pooled leaves the pooled entries as they are and drops the
\* buffer released.
C24_Capped == Len(available) <= 8

C24_FullPoolDrops ==
    Step("release") /\ Len(available) = 8 =>
        available' = available /\ last'.ext = <<"discarded">>

C24_PoolCap == []C24_Capped /\ [][C24_FullPoolDrops]_vars

\* A ninth buffer released to a pool of eight.
C24_Witness ==
    /\ last.op = "release" /\ last.ext = <<"discarded">>
    /\ Len(available) = 8

\* ---- C25: after any sequence of acquire and release calls the pooled
\* entries are stored in non-increasing order of capacity.
C25_SortedDescending ==
    \A i \in 1..(Len(available) - 1) : available[i] >= available[i + 1]

\* The slots in the given state.
SlotsIn(state) == {i \in BufferIds : buffers[i].state = state}

\* The edges of the slot state machine, the starvation fallback included.
SlotEdges ==
    {<<"Available", "Rendering">>, <<"Rendering", "Queued">>,
     <<"Queued", "Displayed">>, <<"Displayed", "Available">>,
     <<"Queued", "Rendering">>}

\* ---- C26: every change of a slot's state made by acquire_buffer,
\* queue_current_buffer, mark_displayed or release_buffer, in any order of
\* calls, follows an edge of the slot state machine.
C26_OnlyEdges ==
    [][\A i \in BufferIds :
          buffers'[i].state # buffers[i].state =>
              <<buffers[i].state, buffers'[i].state>> \in SlotEdges]_vars

\* ---- C27: queue_current_buffer leaves the slot named by current_buffer in
\* Queued whatever state it was in, on a fresh manager slot 0, and changes
\* neither current_buffer, nor another slot, nor a counter.
C27_QueuesCurrent ==
    [][Step("queue_current_buffer") =>
          /\ buffers'[current_buffer].state = "Queued"
          /\ buffers'[current_buffer].use_count = buffers[current_buffer].use_count
          /\ \A j \in BufferIds \ {current_buffer} : buffers'[j] = buffers[j]
          /\ UNCHANGED <<current_buffer, total_frames, buffer_starvation_count,
                         last_starvation_warning>>]_vars

\* queue_current_buffer on a fresh manager: slot 0, never acquired, is Queued.
C27_Witness ==
    /\ last.op = "queue_current_buffer" /\ last.ext = <<"warn:not rendering">>
    /\ acquire_calls = 0 /\ current_buffer = 0
    /\ buffers[0].state = "Queued" /\ buffers[0].use_count = 0

\* ---- C28: when the render loop queues every buffer it acquired before it
\* acquires again, at most one slot is Rendering in every reachable state,
\* whatever notifications arrive, acquisitions by the starvation fallback
\* included.
C28_OneRendering == Cardinality(SlotsIn("Rendering")) <= 1

\* A buffer served by the starvation fallback is the one slot in Rendering.
C28_Witness ==
    /\ last.op = "acquire_buffer" /\ HasEffect(last.ext, "warn:forced reuse")
    /\ SlotsIn("Rendering") = {last.val}

\* ---- C29: in every state reachable through acquire_buffer,
\* queue_current_buffer, mark_displayed and release_buffer at most one slot is
\* Displayed.
C29_OneDisplayed == Cardinality(SlotsIn("Displayed")) <= 1

\* ---- C30: when the render loop queues every buffer it acquired before it
\* acquires again and the compositor never keeps more than one buffer
\* Displayed, every acquire_buffer call returns a buffer id, also when Queued
\* buffers are never released.
C30_AlwaysABuffer ==
    [][Step("acquire_buffer") => last'.ret = "Some"]_vars

\* Two slots Queued and never released, one Displayed: the acquire is served.
C30_Witness ==
    /\ last.op = "acquire_buffer" /\ last.ret = "Some"
    /\ HasEffect(last.ext, "warn:forced reuse")
    /\ Cardinality(SlotsIn("Displayed")) = 1
    /\ Cardinality(SlotsIn("Queued")) = 1

\* ---- C31: in every reachable state total_frames + buffer_starvation_count is
\* the number of acquire_buffer calls made so far, and the three slots'
\* use_count add up to the number of those calls that returned a buffer id.
C31_CountersAddUp ==
    /\ total_frames + buffer_starvation_count = acquire_calls
    /\ buffers[0].use_count + buffers[1].use_count + buffers[2].use_count
         = acquire_some

\* A forced reuse has happened: an id was returned that total_frames does not
\* count, and a slot has been rendered into twice.
C31_Witness ==
    /\ acquire_some > total_frames
    /\ buffer_starvation_count >= 1
    /\ \E i \in BufferIds : buffers[i].use_count = 2

\* The warning-level log records a call has emitted.
WarningRecords(ext) ==
    Count(ext, "warn:starvation") + Count(ext, "warn:forced reuse")

\* ---- C32: while starvation persists, acquire_buffer emits warning-level log
\* records at most once per second: no call emits two of them, and two
\* successive acquire_buffer calls that both emit one are at least
\* StarvationWarnInterval apart, forced reuse of a Queued slot included.
C32_WarningsRateLimited ==
    [][Step("acquire_buffer") =>
          /\ WarningRecords(last'.ext) <= 1
          /\ (/\ last.op = "acquire_buffer"
              /\ WarningRecords(last.ext) >= 1
              /\ WarningRecords(last'.ext) >= 1)
                => now' - now >= StarvationWarnInterval]_vars

\* What a wait_for_fence call that found a pending fence does to the
\* statistics; last'.val is the call's wait duration.
C33_WaitCounted ==
    (Step("wait_for_fence") /\ pending_fence # <<>>) =>
        /\ total_waits' = total_waits + 1
        /\ total_wait_time' = total_wait_time + last'.val
        /\ max_wait_time' >= last'.val
        /\ max_wait_time' >= max_wait_time
        /\ total_timeouts' = IF last'.ret = "Some(true)"
                             THEN total_timeouts ELSE total_timeouts + 1

C33_StatsOrdered ==
    /\ total_timeouts <= total_waits
    /\ total_waits <= total_fences_created
    /\ max_wait_time <= total_wait_time

\* ---- C33: every wait_for_fence call that finds a pending fence adds one to
\* total_waits and its wait duration to total_wait_time, raises max_wait_time
\* to at least that duration, and adds one to total_timeouts exactly when the
\* outcome is not Signaled; so total_timeouts <= total_waits <=
\* total_fences_created and max_wait_time <= total_wait_time always.
C33_WaitStatistics == []C33_StatsOrdered /\ [][C33_WaitCounted]_vars

\* Two waits done, the longer first: one timed out after a second, one was
\* signaled at once.
C33_Witness ==
    /\ total_waits = 2 /\ total_timeouts = 1
    /\ total_wait_time = 1 /\ max_wait_time = 1
    /\ last.op = "wait_for_fence" /\ last.ret = "Some(true)" /\ last.val = 0

\* ---- C34: a wait_for_fence call that reaches the external wait returns
\* Signaled or TimedOut only; when ClientWaitSync reports an error status
\* (neither condition-satisfied nor timeout-expired) the call returns
\* TimedOut, adds one to total_timeouts, and destroys the fence all the same.
C34_ErrorIsTimeout ==
    [][(Step("wait_for_fence") /\ pending_fence # <<>>) =>
          /\ last'.ret \in {"Some(true)", "Some(false)"}
          /\ HasEffect(last'.ext, "warn:unexpected status") =>
                /\ last'.ret = "Some(false)"
                /\ total_timeouts' = total_timeouts + 1
                /\ pending_fence' = <<>>
                /\ sync_destroyed'[pending_fence[1].sync] = 1
                /\ HasEffect(last'.ext, "DestroySync")]_vars

\* A wait whose ClientWaitSync reported an error status has returned.
C34_Witness ==
    /\ last.op = "wait_for_fence"
    /\ HasEffect(last.ext, "warn:unexpected status")
    /\ total_timeouts = 1 /\ total_waits = 1
    /\ LiveSyncs = {} /\ Len(sync_destroyed) = 1

\* A step in which wait_for_fence emitted the fence-timeout warning.
C35_Warned == Step("wait_for_fence") /\ HasEffect(last'.ext, "warn:fence timeout")

\* last_timeout_log is the time of construction (0) until the first warning
\* and the time of the latest warning after it; a warning comes more than
\* TimeoutLogInterval after it; a timeout is counted warned or not.
C35_Step ==
    /\ last_timeout_log' # last_timeout_log <=> C35_Warned
    /\ C35_Warned =>
          /\ last_timeout_log' = now'
          /\ now' - last_timeout_log > TimeoutLogInterval
          /\ now' > TimeoutLogInterval
    /\ (Step("wait_for_fence") /\ last'.ret = "Some(false)") =>
          total_timeouts' = total_timeouts + 1

\* ---- C35: any two fence-timeout warnings of wait_for_fence are more than 5
\* seconds apart and none comes within the first 5 seconds after the manager
\* is constructed; a timeout whose warning is suppressed is still counted in
\* total_timeouts.
C35_TimeoutWarningsSpaced == [][C35_Step]_vars

\* A timeout exactly 5 seconds after a warned one: counted, not warned.
C35_Witness ==
    /\ last.op = "wait_for_fence" /\ last.ret = "Some(false)"
    /\ ~HasEffect(last.ext, "warn:fence timeout")
    /\ last_timeout_log > 0 /\ now - last_timeout_log = TimeoutLogInterval
    /\ total_timeouts = 2

\* ---- C36: an acquire whose allocation fails returns the allocation error
\* and leaves the pooled entries, allocations and reuses unchanged; release,
\* stats and clear never fail; clear empties the pool and changes neither
\* counter.
C36_OnlyAllocationFails ==
    [][/\ (Step("acquire") /\ last'.ret = "Err") =>
              UNCHANGED <<available, allocations, reuses>>
       /\ (Step("release") \/ Step("stats") \/ Step("clear")) =>
              last'.ret \in {"Unit", "Ok"}
       /\ Step("clear") =>
              /\ available' = <<>>
              /\ UNCHANGED <<allocations, reuses>>]_vars

\* A failed allocation on a pool that holds a buffer too small for the
\* request, after an allocation and a reuse were counted.
C36_Witness ==
    /\ last.op = "acquire" /\ last.ret = "Err"
    /\ Len(available) >= 1
    /\ allocations = 1 /\ reuses = 1

\* ---- C37: the count of refresh intervals elapsed since the last feedback is
\* computed without truncation or wrap-around: with a feedback of non-zero
\* refresh_interval recorded, predict_next_vsync returns an instant strictly
\* after the time of the call, however large elapsed / refresh_interval is.
C37_CountNotTruncated ==
    [][( /\ Step("predict_next_vsync")
         /\ last_feedback # <<>>
         /\ last_feedback[1].refresh_interval # 0 ) =>
          /\ last'.ret = "Instant"
          /\ last'.val > call_time']_vars

\* What get, insert and invalidate of a callback cache return and leave.
C38_Step ==
    /\ Step("get") =>
          LET c == last'.arg.cache
              k == last'.arg.key
          IN  inserted[c][k] # 0 =>
                  last'.ret = "Some" /\ last'.val = inserted[c][k]
    /\ Step("invalidate") =>
          LET c == last'.arg.cache
          IN  /\ EntryCount(caches'[c].entries) = 0
              /\ \A k \in CacheKeys :
                    IF c \in CallbackCaches
                    THEN CallbackCache_get(caches'[c], k) = <<>>
                    ELSE TabTitleCache_get(caches'[c], k) = <<>>

C38_CurrentGeneration ==
    \A c \in CacheNames, s \in CacheKeys :
        caches[c].entries[s] # <<>> =>
            caches[c].entries[s][1].generation = caches[c].generation

\* ---- C38: for a CallbackCache and a TabTitleCache, get(k) returns v when
\* insert(k, v) was the latest insert of k and no invalidate came after it;
\* invalidate() leaves no entry in storage and get returns None for every
\* key; an entry inserted after the invalidate is returned again; every
\* stored entry carries the current generation.
C38_InsertThenGet == []C38_CurrentGeneration /\ [][C38_Step]_vars

\* ---- C39: with the cached getters and the invalidate functions called from
\* different threads, a getter call made after an invalidate call returned
\* never returns a value whose compute_fn ran before that invalidation: a hit
\* returns a value computed after the latest invalidation of its cache, and a
\* computed value is not older than the invalidations that had returned when
\* the call was made.  (A value computed after n invalidations is n + 1.)
C39_NoStaleValue ==
    [][/\ (Step("get_cached") /\ last'.ret = "cached") =>
              last'.val > invalidations[last'.arg.cache]
       /\ \A t \in Threads :
              (getter[t].pc = "store" /\ getter[t].result # <<>>) =>
                  getter[t].result[1] > getter[t].began]_vars

\* ---- C40: invalidating a LuaTableCache removes the entries of earlier
\* generations as part of the invalidation, so after any sequence of
\* get_or_create and invalidate calls a cache stores no entry whose generation
\* differs from the cache's current one.
C40_NoOldGenerations ==
    \A c \in LuaCacheNames, id \in LuaIds :
        lua_caches[c].entries[id] # <<>> =>
            lua_caches[c].entries[id][1].generation = lua_caches[c].generation

====
